---------------------------- MODULE Spec2Model ----------------------------
(***************************************************************************)
(* A model of oauth10a/signing_requests.py: the OAuth 1.0a request URL     *)
(* (9.1.2), the normalized request parameters (9.1.1), the signature base  *)
(* string (9.1.3) and the requests auth hooks that sign a request.         *)
(*                                                                         *)
(* Python byte strings are sequences of one-character strings, so that     *)
(* parsing, quoting, sorting and joining are computed character by         *)
(* character as urlparse, urllib and list.sort compute them.               *)
(***************************************************************************)
EXTENDS Integers, Sequences, FiniteSets, TLC

VARIABLES
    u_parts, u_url, u_res, u_pc,
    oauth_params, get_params, post_params, n_in, n_req, n_out, n_prev, n_calls,
    signer, ctor, req, pre, pc, err, local, drawn, calls

urlVars == <<u_parts, u_url, u_res, u_pc>>
normVars == <<oauth_params, get_params, post_params, n_in, n_req, n_out, n_prev, n_calls>>
signVars == <<signer, ctor, req, pre, pc, err, local, drawn, calls>>
vars == <<urlVars, normVars, signVars>>

(***************************************************************************)
(* Byte strings.                                                           *)
(***************************************************************************)

\* The printable ASCII characters, in byte order: Ascii[i] has byte value i + 31
\* (the grave accent, byte 96, is spelled out: it is no string literal of TLA+).
Ascii ==
    <<
     " ", "!", "\"", "#", "$", "%", "&", "'", "(", ")", "*", "+", ",", "-", ".", "/",
     "0", "1", "2", "3", "4", "5", "6", "7", "8", "9", ":", ";", "<", "=", ">", "?",
     "@", "A", "B", "C", "D", "E", "F", "G", "H", "I", "J", "K", "L", "M", "N", "O",
     "P", "Q", "R", "S", "T", "U", "V", "W", "X", "Y", "Z", "[", "\\", "]", "^", "_",
     "grave", "a", "b", "c", "d", "e", "f", "g", "h", "i", "j", "k", "l", "m", "n", "o",
     "p", "q", "r", "s", "t", "u", "v", "w", "x", "y", "z", "{", "|", "}", "~" >>

AsciiChars == {Ascii[i] : i \in DOMAIN Ascii}

\* The byte value of every ASCII character.
OrdTable == [c \in AsciiChars |-> 31 + (CHOOSE i \in DOMAIN Ascii : Ascii[i] = c)]

IsAscii(c) == c \in AsciiChars

Ord(c) == OrdTable[c]

Chr(n) == Ascii[n - 31]

Digits == {"0", "1", "2", "3", "4", "5", "6", "7", "8", "9"}

UpperChars == {Ascii[i] : i \in 34..59}

LowerChars == {Ascii[i] : i \in 66..91}

IsAlnum(c) == c \in UpperChars \/ c \in LowerChars \/ c \in Digits

\* str.lower() and str.upper(), character by character: a letter moves by the
\* 32 bytes between the two cases, every other character stays
LowerTable == [c \in AsciiChars |-> IF c \in UpperChars THEN Chr(OrdTable[c] + 32) ELSE c]

UpperTable == [c \in AsciiChars |-> IF c \in LowerChars THEN Chr(OrdTable[c] - 32) ELSE c]

LowerChar(c) == IF IsAscii(c) THEN LowerTable[c] ELSE c

UpperChar(c) == IF IsAscii(c) THEN UpperTable[c] ELSE c

Lower(s) == [i \in 1..Len(s) |-> LowerChar(s[i])]

Upper(s) == [i \in 1..Len(s) |-> UpperChar(s[i])]

\* s[i:] and s[:i] with 1-based positions: From(s, i) starts at position i,
\* Upto(s, i) ends just before position i.
From(s, i) == SubSeq(s, i, Len(s))

Upto(s, i) == SubSeq(s, 1, i - 1)

\* str.find: the first position >= from where character c stands, 0 if none
Find(s, c, from) ==
    IF \E i \in from..Len(s) : s[i] = c
    THEN CHOOSE i \in from..Len(s) : s[i] = c /\ \A j \in from..(i - 1) : s[j] # c
    ELSE 0

\* str.rfind: the last position where character c stands, 0 if none
RFind(s, c) ==
    IF \E i \in 1..Len(s) : s[i] = c
    THEN CHOOSE i \in 1..Len(s) : s[i] = c /\ \A j \in (i + 1)..Len(s) : s[j] # c
    ELSE 0

\* the first position >= from of any character of set cs, Len(s) + 1 if none
FindAny(s, cs, from) ==
    IF \E i \in from..Len(s) : s[i] \in cs
    THEN CHOOSE i \in from..Len(s) : s[i] \in cs /\ \A j \in from..(i - 1) : s[j] \notin cs
    ELSE Len(s) + 1

StartsWith(s, p) == Len(s) >= Len(p) /\ SubSeq(s, 1, Len(p)) = p

\* sep.join(parts)
RECURSIVE Join(_, _)
Join(parts, sep) ==
    IF Len(parts) = 0 THEN <<>>
    ELSE IF Len(parts) = 1 THEN parts[1]
    ELSE parts[1] \o sep \o Join(Tail(parts), sep)

\* str(n) of a non-negative integer
RECURSIVE IntToStr(_)
IntToStr(n) ==
    IF n < 10 THEN <<Chr(Ord("0") + n)>>
    ELSE IntToStr(n \div 10) \o <<Chr(Ord("0") + (n % 10))>>

\* int(s, 10) of a string of decimal digits
RECURSIVE StrToInt(_)
StrToInt(s) ==
    IF Len(s) = 0 THEN 0
    ELSE 10 * StrToInt(Upto(s, Len(s))) + (Ord(s[Len(s)]) - Ord("0"))

\* s < t in Python's comparison of byte strings
RECURSIVE StrLess(_, _)
StrLess(s, t) ==
    IF Len(t) = 0 THEN FALSE
    ELSE IF Len(s) = 0 THEN TRUE
    ELSE IF s[1] # t[1] THEN Ord(s[1]) < Ord(t[1])
    ELSE StrLess(Tail(s), Tail(t))

\* (k1, v1) <= (k2, v2) in Python's comparison of tuples of byte strings
PairLeq(p, q) ==
    IF p[1] # q[1] THEN StrLess(p[1], q[1])
    ELSE p[2] = q[2] \/ StrLess(p[2], q[2])

(***************************************************************************)
(* urllib.quote_plus, as Python 2 computes it.                             *)
(***************************************************************************)

HexDigits == <<"0", "1", "2", "3", "4", "5", "6", "7", "8", "9", "A", "B", "C", "D", "E", "F">>

\* urllib.always_safe: letters, digits and '_', '.', '-'
AlwaysSafe(c) == IsAlnum(c) \/ c \in {"_", ".", "-"}

\* quote_plus of one character: safe characters stay, a space becomes '+',
\* every other character becomes '%XX'
QuoteChar(c) ==
    IF AlwaysSafe(c) THEN <<c>>
    ELSE IF c = " " THEN <<"+">>
    ELSE <<"%", HexDigits[(Ord(c) \div 16) + 1], HexDigits[(Ord(c) % 16) + 1]>>

\* urllib._safe_map, the table quote looks every character up in
QuoteTable == [c \in AsciiChars |-> QuoteChar(c)]

RECURSIVE QuoteRange(_, _, _)
QuoteRange(s, lo, hi) ==
    IF lo > hi THEN <<>>
    ELSE IF lo = hi THEN QuoteTable[s[lo]]
    ELSE LET mid == (lo + hi) \div 2
         IN  QuoteRange(s, lo, mid) \o QuoteRange(s, mid + 1, hi)

\* urllib.quote_plus(s) raises (KeyError) on a character outside its table
CanQuote(s) == \A i \in 1..Len(s) : IsAscii(s[i])

quote_plus(s) == QuoteRange(s, 1, Len(s))

(***************************************************************************)
(* urlparse.urlparse and the attributes request_url reads.                 *)
(***************************************************************************)

SchemeChars(c) == IsAlnum(c) \/ c \in {"+", "-", "."}

\* urlparse.uses_params holds both schemes the signature knows
UsesParams == {<<"h", "t", "t", "p">>, <<"h", "t", "t", "p", "s">>, <<"f", "t", "p">>, <<>>}

\* urlsplit: the scheme, when the text before the first ':' (at position i)
\* is one, and what follows it
SplitSchemeAt(url, i, rest) ==
    IF /\ i > 1
       /\ \A j \in 1..(i - 1) : SchemeChars(url[j])
       /\ (Len(rest) = 0 \/ \E j \in 1..Len(rest) : rest[j] \notin Digits)
    THEN [scheme |-> Lower(Upto(url, i)), rest |-> rest]
    ELSE [scheme |-> <<>>, rest |-> url]

SplitScheme(url) == SplitSchemeAt(url, Find(url, ":", 1), From(url, Find(url, ":", 1) + 1))

\* s[:i] and s[i:] as head and tail
CutBefore(s, i) == [head |-> Upto(s, i), tail |-> From(s, i)]

\* s[:i] and s[i+1:] as head and tail, all of s and '' when i is 0
CutAround(s, i) ==
    IF i = 0 THEN [head |-> s, tail |-> <<>>]
    ELSE [head |-> Upto(s, i), tail |-> From(s, i + 1)]

\* urlsplit: the netloc, between '//' and the first of '/', '?', '#', as head,
\* and what follows it as tail
SplitNetloc(url) ==
    IF StartsWith(url, <<"/", "/">>)
    THEN CutBefore(From(url, 3), FindAny(From(url, 3), {"/", "?", "#"}, 1))
    ELSE [head |-> <<>>, tail |-> url]

\* s.split(c, 1): what stands before and after the first c
SplitOnce(s, c) == CutAround(s, Find(s, c, 1))

\* urlparse._splitparams: the ';' parameters of the last path segment
SplitParams(url) == CutAround(url, Find(url, ";", IF RFind(url, "/") = 0 THEN 1 ELSE RFind(url, "/")))

\* urlparse: the path and its ';' parameters, under a scheme that has them
PathAndParams(scheme, path) ==
    IF scheme \in UsesParams /\ Find(path, ";", 1) # 0
    THEN SplitParams(path)
    ELSE [head |-> path, tail |-> <<>>]

ParseResult(scheme, netloc, pathParams, query, fragment) ==
    [scheme |-> scheme, netloc |-> netloc, path |-> pathParams.head,
     params |-> pathParams.tail, query |-> query, fragment |-> fragment]

\* urlsplit, from the right: the query off the part before the fragment
ParseQuery(scheme, netloc, q, fragment) ==
    ParseResult(scheme, netloc, PathAndParams(scheme, q.head), q.tail, fragment)

ParseFragment(scheme, netloc, f) ==
    ParseQuery(scheme, netloc, SplitOnce(f.head, "?"), f.tail)

ParseNetloc(scheme, n) == ParseFragment(scheme, n.head, SplitOnce(n.tail, "#"))

ParseScheme(s) == ParseNetloc(s.scheme, SplitNetloc(s.rest))

urlparse(url) == ParseScheme(SplitScheme(url))

\* netloc.split('@')[-1]
AfterUserinfo(netloc) ==
    IF RFind(netloc, "@") = 0 THEN netloc ELSE From(netloc, RFind(netloc, "@") + 1)

\* [none |-> TRUE] stands for None
HostOf(netloc, i) ==
    IF i # 0 THEN [none |-> FALSE, val |-> Lower(Upto(netloc, i))]
    ELSE IF netloc = <<>> THEN [none |-> TRUE, val |-> <<>>]
    ELSE [none |-> FALSE, val |-> Lower(netloc)]

HostIn(netloc) == HostOf(netloc, Find(netloc, ":", 1))

\* ParseResult.hostname
hostname(parsed) == HostIn(AfterUserinfo(parsed.netloc))

\* None without a port, int(port, 10) otherwise, which raises ValueError on a
\* port that is no number
PortOf(i, text) ==
    IF i = 0 \/ text = <<>> THEN [kind |-> "None", n |-> 0]
    ELSE IF \E j \in 1..Len(text) : text[j] \notin Digits
         THEN [kind |-> "ValueError", n |-> 0]
    ELSE IF StrToInt(text) > 65535 THEN [kind |-> "None", n |-> 0]
    ELSE [kind |-> "int", n |-> StrToInt(text)]

PortAt(netloc, i) == PortOf(i, SplitOnce(From(netloc, i + 1), ":").head)

PortIn(netloc) == PortAt(netloc, Find(netloc, ":", 1))

\* ParseResult.port
port(parsed) == PortIn(AfterUserinfo(parsed.netloc))

\* urlunsplit: '//' and the netloc before the path, which gets a leading '/'
WithNetloc(scheme, netloc, path) ==
    IF netloc # <<>> \/ (scheme # <<>> /\ ~StartsWith(path, <<"/", "/">>))
    THEN <<"/", "/">> \o netloc
         \o (IF path # <<>> /\ path[1] # "/" THEN <<"/">> ELSE <<>>) \o path
    ELSE path

\* urlparse.urlunparse((scheme, netloc, path, None, None, None))
urlunparse(scheme, netloc, path) ==
    IF scheme # <<>>
    THEN scheme \o <<":">> \o WithNetloc(scheme, netloc, path)
    ELSE WithNetloc(scheme, netloc, path)

(***************************************************************************)
(* 9.1.2: request_url(url).  The result is [ok, val, err]: the returned    *)
(* string, or the exception the call ends in.                              *)
(***************************************************************************)

Returned(s) == [ok |-> TRUE, val |-> s, err |-> "none"]

Raised(e) == [ok |-> FALSE, val |-> <<>>, err |-> e]

\* lines 74-77: the port is redundant with the scheme
RedundantPort(scheme, p) ==
    \/ (scheme = <<"h", "t", "t", "p">> /\ p.kind = "int" /\ p.n = 80)
    \/ (scheme = <<"h", "t", "t", "p", "s">> /\ p.kind = "int" /\ p.n = 443)

\* lines 72-80
Netloc(scheme, host, p) ==
    IF p.kind = "int" /\ ~RedundantPort(scheme, p)
    THEN Join(<<host.val, IntToStr(p.n)>>, <<":">>)
    ELSE host.val

\* lines 72-83: int(port) raises ValueError, ':'.join([None]) TypeError
CanonicalUrl(parsed, host, p) ==
    IF p.kind = "ValueError" THEN Raised("ValueError")
    ELSE IF host.none THEN Raised("TypeError")
    ELSE Returned(urlunparse(parsed.scheme, Netloc(parsed.scheme, host, p), parsed.path))

RequestUrlOf(parsed) == CanonicalUrl(parsed, hostname(parsed), port(parsed))

request_url(url) == RequestUrlOf(urlparse(url))

(***************************************************************************)
(* Parameter mappings.  A dict is the sequence of its (key, value) items   *)
(* in iteration order, with distinct keys; a value is a byte string or an  *)
(* integer, which str() renders.                                           *)
(***************************************************************************)

StrVal(s) == [isInt |-> FALSE, n |-> 0, s |-> s]

IntVal(n) == [isInt |-> TRUE, n |-> n, s |-> <<>>]

\* str(v)
Str(v) == IF v.isInt THEN IntToStr(v.n) ELSE v.s

\* an optional mapping: None, or a dict
NoneDict == [none |-> TRUE, d |-> <<>>]

SomeDict(d) == [none |-> FALSE, d |-> d]

HasKey(d, k) == \E i \in 1..Len(d) : d[i][1] = k

IsPairNamed(p, k) == p[1] = k

\* d.pop(k, None): the dict without key k
Pop(d, k) == SelectSeq(d, LAMBDA p : ~IsPairNamed(p, k))

\* d[k] = v: replaces the value of an existing key, appends a new one
SetItem(d, k, v) ==
    IF HasKey(d, k)
    THEN [i \in 1..Len(d) |-> IF d[i][1] = k THEN <<k, v>> ELSE d[i]]
    ELSE Append(d, <<k, v>>)

\* [(str(k), str(d[k])) for k in d.keys()]
Items(d) == [i \in 1..Len(d) |-> <<d[i][1], Str(d[i][2])>>]

\* list.sort() of a list of (name, value) tuples
RECURSIVE Insert(_, _)
Insert(sorted, p) ==
    IF Len(sorted) = 0 THEN <<p>>
    ELSE IF PairLeq(p, sorted[1]) THEN <<p>> \o sorted
    ELSE <<sorted[1]>> \o Insert(Tail(sorted), p)

RECURSIVE Sort(_)
Sort(params) ==
    IF Len(params) = 0 THEN <<>>
    ELSE Insert(Sort(Upto(params, Len(params))), params[Len(params)])

SIGNATURE == <<"o", "a", "u", "t", "h", "_", "s", "i", "g", "n", "a", "t", "u", "r", "e">>

(***************************************************************************)
(* 9.1.1: normalized_request_parameters(oauth_params, get_params,          *)
(* post_params).  The result holds the returned string and oauth_params as *)
(* the call leaves it: the pop of line 118 acts on the caller's dict.      *)
(***************************************************************************)

\* line 118
ExcludeSignature(oauthParams) == Pop(oauthParams, SIGNATURE)

\* lines 120-125
CollectParams(oauthParams, getParams, postParams) ==
    Items(oauthParams)
        \o (IF getParams.none THEN <<>> ELSE Items(getParams.d))
        \o (IF postParams.none THEN <<>> ELSE Items(postParams.d))

\* a plausible slip: the list is joined as collected
UnsortedParams(params) == params

\* line 127
SortParams(params) == Sort(params)

\* '='.join(param), line 129
JoinParam(param) == Join(param, <<"=">>)

\* line 129
JoinParams(params) == Join([i \in 1..Len(params) |-> JoinParam(params[i])], <<"&">>)

\* lines 120-129, on oauth_params as line 118 leaves it
NormalizedOf(popped, getParams, postParams) ==
    [oauth_params |-> popped,
     val |-> JoinParams(SortParams(CollectParams(popped, getParams, postParams)))]

normalized_request_parameters(oauthParams, getParams, postParams) ==
    NormalizedOf(ExcludeSignature(oauthParams), getParams, postParams)

(***************************************************************************)
(* 9.1.3: signature_base_string(http_method, url, oauth_params,            *)
(* get_params, post_params).  The result is [ok, val, err] and oauth_params*)
(* as the call leaves it.                                                  *)
(***************************************************************************)

\* line 154
QuoteElements(elements) == [i \in 1..Len(elements) |-> quote_plus(elements[i])]

\* lines 153-155: quote_plus raises KeyError on a character it cannot quote
JoinElements(elements, oauthParams) ==
    IF \E i \in 1..Len(elements) : ~CanQuote(elements[i])
    THEN [ok |-> FALSE, val |-> <<>>, err |-> "KeyError", oauth_params |-> oauthParams]
    ELSE [ok |-> TRUE, val |-> Join(QuoteElements(elements), <<"&">>), err |-> "none",
          oauth_params |-> oauthParams]

\* lines 149-155: request_url raises before the parameters are normalized
BaseStringOf(method, canon, norm, oauthParams) ==
    IF ~canon.ok
    THEN [ok |-> FALSE, val |-> <<>>, err |-> canon.err, oauth_params |-> oauthParams]
    ELSE JoinElements(<<method, canon.val, norm.val>>, norm.oauth_params)

signature_base_string(http_method, url, oauthParams, getParams, postParams) ==
    BaseStringOf(Upper(http_method), request_url(url),
                 normalized_request_parameters(oauthParams, getParams, postParams),
                 oauthParams)

(***************************************************************************)
(* The auth hooks: AuthBase and its subclasses.                            *)
(***************************************************************************)

\* an optional constructor argument: None, or a string
NoneArg == [none |-> TRUE, val |-> <<>>]

SomeArg(s) == [none |-> FALSE, val |-> s]

\* x or ''
OrEmpty(arg) == IF arg.none THEN <<>> ELSE arg.val

\* AuthBase.__init__ (the subclasses add nothing the calls below read)
AuthInit(args) ==
    [cls             |-> args.cls,
     consumer_key    |-> args.consumer_key,
     consumer_secret |-> args.consumer_secret,
     token_key       |-> OrEmpty(args.tokens.key),
     token_secret    |-> OrEmpty(args.tokens.secret),
     callback_url    |-> args.callback_url]

\* the classes whose __call__ is AuthBase.__call__
CallsAuthBase == {"AuthBase", "HMACSHA1Auth"}

\* the classes that override __call__ with `return r`
OverridesCall == {"RSASHA1Auth", "PlaintextAuth"}

\* utils.nonce(): a value no earlier call drew, here the one named after the
\* number n of the call
nonce(n) == <<"n">> \o IntToStr(n)

\* str(utils.timestamp())
timestamp(t) == IntToStr(t)

\* the dict literal of lines 176-183
NewOAuthParams(self, t, n) ==
    << <<<<"o", "a", "u", "t", "h", "_", "c", "o", "n", "s", "u", "m", "e", "r", "_", "k", "e", "y">>, StrVal(self.consumer_key)>>,
       <<<<"o", "a", "u", "t", "h", "_", "s", "i", "g", "n", "a", "t", "u", "r", "e", "_", "m", "e", "t", "h", "o", "d">>, StrVal(<<"H", "M", "A", "C", "-", "S", "H", "A", "1">>)>>,
       <<<<"o", "a", "u", "t", "h", "_", "t", "i", "m", "e", "s", "t", "a", "m", "p">>, StrVal(timestamp(t))>>,
       <<<<"o", "a", "u", "t", "h", "_", "n", "o", "n", "c", "e">>, StrVal(nonce(n))>>,
       <<<<"o", "a", "u", "t", "h", "_", "v", "e", "r", "s", "i", "o", "n">>, StrVal(<<"1", ".", "0">>)>>,
       <<<<"o", "a", "u", "t", "h", "_", "c", "a", "l", "l", "b", "a", "c", "k">>, StrVal(self.callback_url)>> >>

\* AuthBase.signature_base_string(r, oauth_params), line 173
AuthBase_signature_base_string(r, oauthParams) ==
    signature_base_string(r.method, r.url, oauthParams, NoneDict, NoneDict)

\* hmac.new(key, msg, sha1).digest() then base64.b64encode: the digest is
\* kept as the term of its key and its message, which determine it
HmacSha1Base64(key, msg) == <<"{">> \o key \o <<"|">> \o msg \o <<"}">>

\* lines 220-222
SigningKey(self) ==
    quote_plus(self.consumer_secret) \o <<"&">> \o quote_plus(self.token_secret)

\* lines 224-227, on the base string s
SignatureOf(signing_key, s) ==
    IF ~s.ok
    THEN [ok |-> FALSE, val |-> <<>>, err |-> s.err, base |-> <<>>,
          oauth_params |-> s.oauth_params]
    ELSE [ok |-> TRUE, val |-> HmacSha1Base64(signing_key, s.val),
          err |-> "none", base |-> s.val, oauth_params |-> s.oauth_params]

\* HMACSHA1Auth.generate_signature(r, oauth_params); AuthBase defines none.
\* The result is [ok, val, err], the base string and oauth_params as left.
generate_signature(self, r, oauthParams) ==
    IF self.cls # "HMACSHA1Auth"
    THEN [ok |-> FALSE, val |-> <<>>, err |-> "AttributeError", base |-> <<>>,
          oauth_params |-> oauthParams]
    ELSE IF ~CanQuote(self.consumer_secret) \/ ~CanQuote(self.token_secret)
    THEN [ok |-> FALSE, val |-> <<>>, err |-> "KeyError", base |-> <<>>,
          oauth_params |-> oauthParams]
    ELSE SignatureOf(SigningKey(self), AuthBase_signature_base_string(r, oauthParams))

\* urllib.urlencode(d)
urlencode(d) ==
    Join([i \in 1..Len(d) |->
             quote_plus(d[i][1]) \o <<"=">> \o quote_plus(Str(d[i][2]))], <<"&">>)

\* r.headers[name] = value
SetHeader(headers, name, value) ==
    [h \in (DOMAIN headers) \cup {name} |-> IF h = name THEN value ELSE headers[h]]

\* a plausible slip: the parameters go to the URL and to the header
AttachParamsToBoth(r, params) ==
    [r EXCEPT !.url = r.url \o <<"?">> \o params,
              !.headers = SetHeader(r.headers, "Authorization", <<"O", "A", "u", "t", "h", " ">> \o params)]

\* lines 188-192: the one write of AuthBase.__call__
AttachParams(r, params) ==
    IF r.method = <<"G", "E", "T">>
    THEN [r EXCEPT !.url = r.url \o <<"?">> \o params]
    ELSE [r EXCEPT !.headers = SetHeader(r.headers, "Authorization", <<"O", "A", "u", "t", "h", " ">> \o params)]

\* lines 185-186: the signature joins oauth_params, which are serialized
SignedLocals(sig, signed) ==
    [ok |-> TRUE, err |-> "none", oauth_params |-> signed, base |-> sig.base,
     params |-> urlencode(signed)]

\* lines 184-186, or the exception generate_signature raised
LocalsOf(sig) ==
    IF sig.ok
    THEN SignedLocals(sig, SetItem(sig.oauth_params, SIGNATURE, StrVal(sig.val)))
    ELSE [ok |-> FALSE, err |-> sig.err, oauth_params |-> sig.oauth_params,
          base |-> <<>>, params |-> <<>>]

\* the locals of AuthBase.__call__ at line 186, with the timestamp t and the
\* nonce n: [ok, err], oauth_params, the base string signed and params
CallLocals(self, r, t, n) ==
    LocalsOf(generate_signature(self, r, NewOAuthParams(self, t, n)))

\* a plausible slip: the unsigned parameters are attached before the
\* signature is generated
CallAttachingFirst(self, r, t, n) ==
    [locals |-> CallLocals(self, r, t, n),
     request |-> AttachParams(r, urlencode(NewOAuthParams(self, t, n))),
     self |-> self]

\* a plausible slip: the call keeps its nonce on the signer
CallKeepingNonce(self, r, t, n) ==
    [locals |-> CallLocals(self, r, t, n),
     request |-> r,
     self |-> [self EXCEPT !.token_secret = nonce(n)]]

\* lines 176-186 of AuthBase.__call__: the locals, and the request and the
\* signer as these lines leave them; none of them assigns to r or to self
CallUpToAttach(self, r, t, n) ==
    [locals |-> CallLocals(self, r, t, n), request |-> r, self |-> self]

\* RSASHA1Auth.__call__ and PlaintextAuth.__call__: return r
StubCallResult(self, r) == r

(***************************************************************************)
(* Bounds and inputs.                                                      *)
(***************************************************************************)

\* signing calls made on one signer
MaxCalls == 2

\* items per parameter mapping
MaxDictLen == 2

\* calls of the normalizer or the builder on one set of mappings
MaxNormCalls == 2

Callers == {"c1", "c2"}

\* the clock readings utils.timestamp() may return
TimeValues == {7, 1300000000}

\* a character outside ASCII, as a unicode secret may hold
NonAscii == "U+00E9"

UrlSchemes == {<<"h", "t", "t", "p">>, <<"H", "T", "T", "P">>, <<"h", "t", "t", "p", "s">>, <<"H", "t", "t", "p", "s">>}

UrlHosts == {<<"e", "x", "a", "m", "p", "l", "e", ".", "c", "o", "m">>, <<"E", "x", "a", "m", "p", "l", "e", ".", "c", "o", "m">>}

UrlPorts == {<<>>, <<"8", "0">>, <<"4", "4", "3">>, <<"8", "4", "4", "3">>}

UrlPaths == {<<>>, <<"/", "r">>, <<"/", "r", "e", "s", "o", "u", "r", "c", "e">>, <<"/", "a", ";", "b", "=", "c">>}

UrlQueries == {<<>>, <<"i", "d", "=", "1", "2", "3">>}

UrlFragments == {<<>>, <<"t", "o", "p">>}

\* the absolute URL made of the parts
AssembleUrl(p) ==
    p.scheme \o <<":", "/", "/">> \o p.host
        \o (IF p.port = <<>> THEN <<>> ELSE <<":">> \o p.port)
        \o p.path
        \o (IF p.query = <<>> THEN <<>> ELSE <<"?">> \o p.query)
        \o (IF p.fragment = <<>> THEN <<>> ELSE <<"#">> \o p.fragment)

UrlParts ==
    [scheme : UrlSchemes, host : UrlHosts, port : UrlPorts, path : UrlPaths,
     query : UrlQueries, fragment : UrlFragments]

OAuthPool ==
    { <<<<"a">>, IntVal(1)>>, <<<<"f">>, IntVal(25)>>,
      <<SIGNATURE, StrVal(<<"s", "i", "g">>)>> }

GetPool ==
    { <<<<"c">>, StrVal(<<"h", "i", " ", "t", "h", "e", "r", "e">>)>>, <<<<"f">>, StrVal(<<"5", "0">>)>>,
      <<SIGNATURE, StrVal(<<"o", "l", "d">>)>> }

PostPool == { <<<<"f">>, StrVal(<<"a">>)>>, <<<<"f", "2">>, StrVal(<<"x", "~", "y">>)>> }

\* the dicts of at most MaxDictLen items of a pool, in every iteration order
DictsOver(pool) ==
    UNION { { d \in [1..k -> pool] : \A i, j \in 1..k : i # j => d[i][1] # d[j][1] }
            : k \in 0..MaxDictLen }

OptionalDictsOver(pool) == {NoneDict} \cup {SomeDict(d) : d \in DictsOver(pool)}

NormRequests ==
    { [method |-> <<"g", "e", "t">>, url |-> <<"H", "T", "T", "P", ":", "/", "/", "E", "x", "a", "m", "p", "l", "e", ".", "c", "o", "m", ":", "8", "0", "/", "r", "e", "s", "o", "u", "r", "c", "e", "?", "i", "d", "=", "1", "2", "3">>],
      [method |-> <<"P", "O", "S", "T">>, url |-> <<"/", "r", "e", "s", "o", "u", "r", "c", "e">>] }

NoTokens == [key |-> NoneArg, secret |-> NoneArg]

SignerArgs ==
    [cls : CallsAuthBase \cup OverridesCall,
     consumer_key : {<<"c", "k">>},
     consumer_secret : {<<"c", " ", "s">>},
     tokens : {NoTokens,
               [key |-> SomeArg(<<"t", "k">>), secret |-> SomeArg(<<"t", "s">>)],
               [key |-> SomeArg(<<"t", "k">>), secret |-> SomeArg(<<"t", NonAscii>>)]},
     callback_url : {<<"o", "o", "b">>}]

PlainHeaders == [h \in {"Accept"} |-> <<"*", "/", "*">>]

BasicHeaders == [h \in {"Accept", "Authorization"} |->
                    IF h = "Accept" THEN <<"*", "/", "*">> ELSE <<"B", "a", "s", "i", "c", " ", "d", "T", "p", "w">>]

Requests ==
    { [method |-> <<"G", "E", "T">>, url |-> <<"H", "T", "T", "P", ":", "/", "/", "E", "x", "a", "m", "p", "l", "e", ".", "c", "o", "m", ":", "8", "0", "/", "r", "e", "s", "o", "u", "r", "c", "e", "?", "i", "d", "=", "1", "2", "3">>,
       headers |-> PlainHeaders, body |-> <<>>],
      [method |-> <<"P", "O", "S", "T">>, url |-> <<"h", "t", "t", "p", "s", ":", "/", "/", "e", "x", "a", "m", "p", "l", "e", ".", "c", "o", "m", ":", "8", "4", "4", "3", "/", "r">>,
       headers |-> BasicHeaders, body |-> <<"x", "=", "1">>],
      [method |-> <<"P", "U", "T">>, url |-> <<"h", "t", "t", "p", "s", ":", "/", "/", "e", "x", "a", "m", "p", "l", "e", ".", "c", "o", "m", "/", "r">>,
       headers |-> PlainHeaders, body |-> <<>>],
      [method |-> <<"G", "E", "T">>, url |-> <<"/", "r", "e", "s", "o", "u", "r", "c", "e">>,
       headers |-> PlainHeaders, body |-> <<>>],
      [method |-> <<"P", "O", "S", "T">>, url |-> <<"h", "t", "t", "p", ":", "/", "/", "e", "x", "a", "m", "p", "l", "e", ".", "c", "o", "m", ":", "8", "o", "/", "r">>,
       headers |-> PlainHeaders, body |-> <<"x", "=", "1">>] }

NoLocals == [oauth_params |-> <<>>, base |-> <<>>, params |-> <<>>]

NoDraw == [t |-> 0, n |-> 0]

NoResult == [fn |-> "none", ok |-> TRUE, val |-> <<>>, err |-> "none"]

(***************************************************************************)
(* The URL canonicalizer applied to an absolute URL.                       *)
(***************************************************************************)

UrlIdle ==
    /\ u_parts = [scheme |-> <<>>, host |-> <<>>, port |-> <<>>, path |-> <<>>,
                  query |-> <<>>, fragment |-> <<>>]
    /\ u_url = <<>>
    /\ u_res = Returned(<<>>)
    /\ u_pc = "off"

NormIdle ==
    /\ oauth_params = <<>>
    /\ get_params = NoneDict
    /\ post_params = NoneDict
    /\ n_in = [oauth_params |-> <<>>, get_params |-> NoneDict, post_params |-> NoneDict]
    /\ n_req = [method |-> <<>>, url |-> <<>>]
    /\ n_out = NoResult
    /\ n_prev = NoResult
    /\ n_calls = 0

SignIdle ==
    /\ ctor = [cls |-> "AuthBase", consumer_key |-> <<>>, consumer_secret |-> <<>>,
               tokens |-> NoTokens, callback_url |-> <<>>]
    /\ signer = AuthInit(ctor)
    /\ req = [c \in Callers |-> [method |-> <<>>, url |-> <<>>,
                                 headers |-> PlainHeaders, body |-> <<>>]]
    /\ pre = req
    /\ pc = [c \in Callers |-> "off"]
    /\ err = [c \in Callers |-> "none"]
    /\ local = [c \in Callers |-> NoLocals]
    /\ drawn = [c \in Callers |-> NoDraw]
    /\ calls = 0

InitUrl ==
    /\ u_parts \in UrlParts
    /\ u_url = AssembleUrl(u_parts)
    /\ u_res = Returned(<<>>)
    /\ u_pc = "ready"
    /\ NormIdle
    /\ SignIdle

\* request_url(u_url)
CanonicalizeUrl ==
    /\ u_pc = "ready"
    /\ u_res' = request_url(u_url)
    /\ u_pc' = "done"
    /\ UNCHANGED <<u_parts, u_url, normVars, signVars>>

NextUrl == CanonicalizeUrl

SpecUrl == InitUrl /\ [][NextUrl]_vars

(***************************************************************************)
(* The normalizer and the base string builder applied to mappings.         *)
(***************************************************************************)

InitNorm ==
    /\ oauth_params \in DictsOver(OAuthPool)
    /\ get_params \in OptionalDictsOver(GetPool)
    /\ post_params \in OptionalDictsOver(PostPool)
    /\ n_in = [oauth_params |-> oauth_params, get_params |-> get_params,
               post_params |-> post_params]
    /\ n_req \in NormRequests
    /\ n_out = NoResult
    /\ n_prev = NoResult
    /\ n_calls = 0
    /\ UrlIdle
    /\ SignIdle

\* normalized_request_parameters(oauth_params, get_params, post_params)
Normalize ==
    /\ n_calls < MaxNormCalls
    /\ \E res \in {normalized_request_parameters(oauth_params, get_params, post_params)} :
          /\ oauth_params' = res.oauth_params
          /\ n_out' = [fn |-> "normalized", ok |-> TRUE, val |-> res.val, err |-> "none"]
    /\ n_prev' = n_out
    /\ n_calls' = n_calls + 1
    /\ UNCHANGED <<get_params, post_params, n_in, n_req, urlVars, signVars>>

\* signature_base_string(method, url, oauth_params, get_params, post_params)
BuildBaseString ==
    /\ n_calls < MaxNormCalls
    /\ \E res \in {signature_base_string(n_req.method, n_req.url, oauth_params,
                                         get_params, post_params)} :
          /\ oauth_params' = res.oauth_params
          /\ n_out' = [fn |-> "base", ok |-> res.ok, val |-> res.val, err |-> res.err]
    /\ n_prev' = n_out
    /\ n_calls' = n_calls + 1
    /\ UNCHANGED <<get_params, post_params, n_in, n_req, urlVars, signVars>>

NextNorm == Normalize \/ BuildBaseString

SpecNorm == InitNorm /\ [][NextNorm]_vars

(***************************************************************************)
(* One signer, used by several callers, each signing its own request.      *)
(***************************************************************************)

Init ==
    /\ ctor \in SignerArgs
    /\ signer = AuthInit(ctor)
    /\ req \in [Callers -> Requests]
    /\ pre = req
    /\ pc = [c \in Callers |-> "idle"]
    /\ err = [c \in Callers |-> "none"]
    /\ local = [c \in Callers |-> NoLocals]
    /\ drawn = [c \in Callers |-> NoDraw]
    /\ calls = 0
    /\ UrlIdle
    /\ NormIdle

\* AuthBase.__call__(r), lines 176-186: draw the timestamp and the nonce,
\* generate the signature, serialize the parameters; or raise
Sign(c) ==
    /\ pc[c] = "idle"
    /\ signer.cls \in CallsAuthBase
    /\ calls < MaxCalls
    /\ \E t \in TimeValues :
          \E res \in {CallUpToAttach(signer, req[c], t, calls + 1)} :
              /\ signer' = res.self
              /\ req' = [req EXCEPT ![c] = res.request]
              /\ pc' = [pc EXCEPT ![c] = IF res.locals.ok THEN "signed" ELSE "raised"]
              /\ err' = [err EXCEPT ![c] = res.locals.err]
              /\ local' = [local EXCEPT ![c] = [oauth_params |-> res.locals.oauth_params,
                                                base |-> res.locals.base,
                                                params |-> res.locals.params]]
              /\ drawn' = [drawn EXCEPT ![c] = [t |-> t, n |-> calls + 1]]
    /\ pre' = [pre EXCEPT ![c] = req[c]]
    /\ calls' = calls + 1
    /\ UNCHANGED <<ctor, urlVars, normVars>>

\* AuthBase.__call__(r), lines 188-195: attach and return r
Attach(c) ==
    /\ pc[c] = "signed"
    /\ req' = [req EXCEPT ![c] = AttachParams(req[c], local[c].params)]
    /\ pc' = [pc EXCEPT ![c] = "returned"]
    /\ UNCHANGED <<signer, ctor, pre, err, local, drawn, calls, urlVars, normVars>>

\* RSASHA1Auth.__call__(r) and PlaintextAuth.__call__(r)
StubCall(c) ==
    /\ pc[c] = "idle"
    /\ signer.cls \in OverridesCall
    /\ calls < MaxCalls
    /\ req' = [req EXCEPT ![c] = StubCallResult(signer, req[c])]
    /\ pre' = [pre EXCEPT ![c] = req[c]]
    /\ pc' = [pc EXCEPT ![c] = "returned"]
    /\ err' = [err EXCEPT ![c] = "none"]
    /\ local' = [local EXCEPT ![c] = NoLocals]
    /\ calls' = calls + 1
    /\ UNCHANGED <<signer, ctor, drawn, urlVars, normVars>>

\* the caller has its result and may pass the same request to the signer again
Resume(c) ==
    /\ pc[c] \in {"returned", "raised"}
    /\ calls < MaxCalls
    /\ pc' = [pc EXCEPT ![c] = "idle"]
    /\ UNCHANGED <<signer, ctor, req, pre, err, local, drawn, calls, urlVars, normVars>>

Next == \E c \in Callers : Sign(c) \/ Attach(c) \/ StubCall(c) \/ Resume(c)

Spec == Init /\ [][Next]_vars

(***************************************************************************)
(* What the properties below read off a string.                            *)
(***************************************************************************)

Contains(s, sub) ==
    \E i \in 1..(Len(s) - Len(sub) + 1) : SubSeq(s, i, i + Len(sub) - 1) = sub

\* the pieces of s between the occurrences of character c (none for '')
RECURSIVE Split(_, _)
Split(s, c) ==
    IF Len(s) = 0 THEN <<>>
    ELSE LET i == Find(s, c, 1)
         IN  IF i = 0 THEN <<s>>
             ELSE <<Upto(s, i)>> \o (IF i = Len(s) THEN << <<>> >> ELSE Split(From(s, i + 1), c))

\* the (name, value) pairs of a string name=value&name=value...
PairsOf(s) ==
    LET pieces == Split(s, "&")
    IN  [i \in 1..Len(pieces) |->
            LET p == SplitOnce(pieces[i], "=") IN <<p.head, p.tail>>]

\* the same pairs as a dict of string values
ParseQs(s) ==
    LET pairs == PairsOf(s)
    IN  [i \in 1..Len(pairs) |-> <<pairs[i][1], StrVal(pairs[i][2])>>]

Count(seq, x) == Cardinality({i \in 1..Len(seq) : seq[i] = x})

Elems(seq) == {seq[i] : i \in 1..Len(seq)}

NotSignature(pairs) == SelectSeq(pairs, LAMBDA p : p[1] # SIGNATURE)

\* the percent-encoding of OAuth 1.0a section 5.1: letters, digits and
\* '-', '.', '_', '~' stay, every other character becomes %XX
PercentEncodeChar(c) ==
    IF IsAlnum(c) \/ c \in {"-", ".", "_", "~"} THEN <<c>>
    ELSE <<"%", HexDigits[(Ord(c) \div 16) + 1], HexDigits[(Ord(c) % 16) + 1]>>

RECURSIVE PercentEncode(_)
PercentEncode(s) ==
    IF Len(s) = 0 THEN <<>> ELSE PercentEncodeChar(s[1]) \o PercentEncode(Tail(s))

\* every input pair of the normalizer call, as strings
InputPairs ==
    CollectParams(n_in.oauth_params, n_in.get_params, n_in.post_params)

Normalized == n_out.fn = "normalized"

(***************************************************************************)
(* The signer.                                                             *)
(***************************************************************************)

\* C1: a call of an RSA_SHA1 or PLAINTEXT signer never returns the request:
\* it ends in UnsupportedSignatureMethod, so no such call hands back a request
\* without a signature.
C1_StubsRejectAtCallTime ==
    \A c \in Callers :
        (signer.cls \in OverridesCall /\ pc[c] \in {"returned", "raised"})
            => (pc[c] = "raised" /\ err[c] = "UnsupportedSignatureMethod")

\* the request r after the call, the request b before it, the serialized
\* parameters and the dict they serialize
AttachedExactlyOnce(r, b, params, oauthParams) ==
    /\ r.method = b.method
    /\ r.body = b.body
    /\ (r.url # b.url) # (r.headers # b.headers)
    /\ HasKey(oauthParams, SIGNATURE)
    /\ Contains(params, SIGNATURE \o <<"=">>)
    /\ params = urlencode(oauthParams)
    /\ b.method = <<"G", "E", "T">> =>
           /\ r.url = b.url \o <<"?">> \o params
           /\ r.headers = b.headers
    /\ b.method # <<"G", "E", "T">> =>
           /\ r.url = b.url
           /\ DOMAIN r.headers = (DOMAIN b.headers) \cup {"Authorization"}
           /\ r.headers["Authorization"] = <<"O", "A", "u", "t", "h", " ">> \o params
           /\ \A h \in (DOMAIN b.headers) \ {"Authorization"} :
                  r.headers[h] = b.headers[h]

C3_FailureLeavesRequest ==
    \A c \in Callers :
        pc[c] = "raised" => (err[c] # "none" /\ req[c] = pre[c])

\* a call raised on a URL without a host while the other caller's request was
\* signed
C3_Witness ==
    \E c, d \in Callers :
        /\ pc[c] = "raised" /\ err[c] = "TypeError"
        /\ pc[d] = "returned" /\ req[d] # pre[d]

\* C4: the base string a call signs is the one the builder gives for the
\* request's method and URL, the OAuth parameters, the request's query
\* parameters and its form-body parameters.
C4_BaseStringCoversRequestParams ==
    \A c \in Callers :
        (signer.cls = "HMACSHA1Auth" /\ pc[c] \in {"signed", "returned"}) =>
            local[c].base =
                signature_base_string(
                    pre[c].method, pre[c].url,
                    NewOAuthParams(signer, drawn[c].t, drawn[c].n),
                    SomeDict(ParseQs(urlparse(pre[c].url).query)),
                    SomeDict(ParseQs(pre[c].body))).val

\* what caller c holds is what the locals `own` of its call give
OutcomeIs(c, own) == local[c].params = own.params /\ err[c] = own.err

\* C10: the signer's five fields are those set at construction, and what a
\* call has computed or raised is what the construction-time credentials, the
\* call's own request and the nonce and timestamp it drew determine.
C10_SignerImmutable ==
    /\ signer.consumer_key = ctor.consumer_key
    /\ signer.consumer_secret = ctor.consumer_secret
    /\ signer.token_key = OrEmpty(ctor.tokens.key)
    /\ signer.token_secret = OrEmpty(ctor.tokens.secret)
    /\ signer.callback_url = ctor.callback_url
    /\ \A c \in Callers :
          (signer.cls \in CallsAuthBase /\ pc[c] \in {"signed", "returned", "raised"}) =>
              OutcomeIs(c, CallLocals(AuthInit(ctor), pre[c], drawn[c].t, drawn[c].n))

\* two calls on the one signer are in flight at once, each past its signature
C10_Witness ==
    /\ signer.cls = "HMACSHA1Auth"
    /\ \A c \in Callers : pc[c] = "signed"
    /\ \E c, d \in Callers : drawn[c].n # drawn[d].n

(***************************************************************************)
(* The URL canonicalizer.                                                  *)
(***************************************************************************)

\* the port of the parts as the canonical URL shows it
CanonicalPort(p) ==
    IF \/ p.port = <<>>
       \/ (Lower(p.scheme) = <<"h", "t", "t", "p">> /\ p.port = <<"8", "0">>)
       \/ (Lower(p.scheme) = <<"h", "t", "t", "p", "s">> /\ p.port = <<"4", "4", "3">>)
    THEN <<>>
    ELSE <<":">> \o p.port

\* C5: request_url of an absolute URL is the lowercased scheme, '://', the
\* lowercased host, the port unless it is 80 under http or 443 under https,
\* and the path as given; the query and the fragment are gone.
C5_SchemeAuthorityPath ==
    u_pc = "done" =>
        /\ u_res.ok
        /\ u_res.val = Lower(u_parts.scheme) \o <<":", "/", "/">> \o Lower(u_parts.host)
                           \o CanonicalPort(u_parts) \o u_parts.path

(***************************************************************************)
(* The normalizer.                                                         *)
(***************************************************************************)

\* the pairs `out` of the output string val hold the pairs `given` and are sorted
SortedPairsOf(val, out, kept, given) ==
    /\ \A p \in Elems(kept) \cup Elems(given) : Count(kept, p) = Count(given, p)
    /\ \A i, j \in 1..Len(out) : i < j => PairLeq(out[i], out[j])
    /\ val = JoinParams(out)

\* C6: the output of normalized_request_parameters is its pairs as name=value
\* joined by '&'; every input pair not named oauth_signature is there as often
\* as the input mappings hold it, and no other such pair is; the pairs stand
\* sorted by name and, under one name, by value, whatever the order of the
\* inputs.
C6_AllPairsSorted ==
    Normalized =>
        SortedPairsOf(n_out.val, PairsOf(n_out.val), NotSignature(PairsOf(n_out.val)),
                      NotSignature(InputPairs))

\* one name stands in two mappings and the first mapping is not in sorted order
C6_Witness ==
    /\ Normalized
    /\ \E i \in 1..Len(n_in.oauth_params) :
          /\ ~n_in.get_params.none
          /\ HasKey(n_in.get_params.d, n_in.oauth_params[i][1])
          /\ n_in.oauth_params[i][1] # SIGNATURE
    /\ Len(n_in.oauth_params) = 2
    /\ ~PairLeq(Items(n_in.oauth_params)[1], Items(n_in.oauth_params)[2])

\* C7: the output is the percent-encoded names and values (letters, digits,
\* '-', '_', '.', '~' as they are, a space as %20), sorted and joined.
C7_PercentEncoded ==
    Normalized =>
        LET given == CollectParams(oauth_params, n_in.get_params, n_in.post_params)
            encoded == [i \in 1..Len(given) |->
                           <<PercentEncode(given[i][1]), PercentEncode(given[i][2])>>]
        IN  n_out.val = JoinParams(Sort(encoded))

\* C8: no pair of the output is named oauth_signature.
C8_NoSignatureInOutput ==
    Normalized => \A p \in Elems(PairsOf(n_out.val)) : p[1] # SIGNATURE

\* C9: a call leaves the three mappings as they were, and a second call of
\* the same function on them returns the same string.
C9_InputsUntouched ==
    n_calls >= 1 =>
        /\ oauth_params = n_in.oauth_params
        /\ get_params = n_in.get_params
        /\ post_params = n_in.post_params
        /\ n_prev.fn = n_out.fn => n_prev.val = n_out.val
=============================================================================
